---- MODULE Spec2Model ----
(***************************************************************************)
(* A model of typebox-utils (src/src/index.ts): the identifier path        *)
(* locator, the two in-place path-directed mutators, the parse pipeline    *)
(* and the validate / validateArray entry points.                          *)
(*                                                                         *)
(* JavaScript values are modelled as tagged records:                       *)
(*   [k |-> "undefined"], [k |-> "null"], [k |-> "string", s |-> ...],     *)
(*   [k |-> "number", s |-> ...], [k |-> "oid", s |-> hex] (an ObjectId    *)
(*   instance), [k |-> "object", f |-> key :> value ...],                  *)
(*   [k |-> "array", e |-> <<...>>].                                       *)
(* A JavaScript string that is used as a path is modelled as the sequence  *)
(* of its maximal dot-free pieces, so "" is <<"">>, "a.b" is <<"a","b">>   *)
(* and ".*" is <<"", "*">>.                                                *)
(***************************************************************************)
EXTENDS Integers, Sequences, FiniteSets, TLC

(* ------------------------------------------------------------------ *)
(* Bounds of the model                                                  *)
(* ------------------------------------------------------------------ *)
MaxArrayLen == 2
\* longest sequence handed to validateArray
MaxBatch == 2
\* most identifiers the generator mints in one run of the model
MaxMinted == 2

Range(q) == {q[i] : i \in 1..Len(q)}

(* ------------------------------------------------------------------ *)
(* JavaScript values                                                    *)
(* ------------------------------------------------------------------ *)
Undef == [k |-> "undefined"]
Null == [k |-> "null"]
Str(s) == [k |-> "string", s |-> s]
Num(n) == [k |-> "number", s |-> n]
Oid(h) == [k |-> "oid", s |-> h]
Obj(f) == [k |-> "object", f |-> f]
Arr(e) == [k |-> "array", e |-> e]
NoFields == [x \in {} |-> Undef]

\* 24-hex strings of the model; "H1" is "h1" written in upper case.
Hex24 == {"h1", "H1", "h2", "h6"}
\* the canonical (lower case) form that ObjectId#toString gives
HexCanon(s) == IF s = "H1" THEN "h1" ELSE s

\* ObjectId.isValid on a value: the guards of the code only ever ask it of strings
ObjectIdIsValid(v) == v.k = "string" /\ v.s \in Hex24
\* new ObjectId(str) for a valid string
NewObjectId(v) == Oid(HexCanon(v.s))
\* oid.toString()
OidToString(v) == Str(v.s)

\* JavaScript truthiness of a value
Truthy(v) ==
  CASE v.k = "undefined" -> FALSE
    [] v.k = "null" -> FALSE
    [] v.k = "string" -> v.s # ""
    [] v.k = "number" -> v.s # "0"
    [] OTHER -> TRUE

(* ------------------------------------------------------------------ *)
(* Property names and path strings                                      *)
(* ------------------------------------------------------------------ *)
\* the dot-free pieces of a property name, i.e. name.split('.')
Pieces(key) == IF key = "a.b" THEN <<"a", "b">> ELSE <<key>>
EmptyPath == <<"">>
\* the array index a property name denotes, or -1
MaxIndexKey == 1
KeyIndex(key) == IF key = "0" THEN 0 ELSE IF key = "1" THEN 1 ELSE -1

(* ------------------------------------------------------------------ *)
(* Schemas                                                              *)
(* ------------------------------------------------------------------ *)
NoDefault == [kind |-> "none"]
LitDefault(s) == [kind |-> "literal", s |-> s]
FnDefault == [kind |-> "function"]

\* truthiness of schema.default
DefaultTruthy(d) == d.kind = "function" \/ (d.kind = "literal" /\ d.s # "")

TString(format, default) ==
  [type |-> "string", format |-> format, default |-> default,
   optional |-> FALSE, properties |-> <<>>, items |-> <<>>]
TNumber ==
  [type |-> "number", format |-> "none", default |-> NoDefault,
   optional |-> FALSE, properties |-> <<>>, items |-> <<>>]
TObject(props) ==
  [type |-> "object", format |-> "none", default |-> NoDefault,
   optional |-> FALSE, properties |-> props, items |-> <<>>]
TArray(item) ==
  [type |-> "array", format |-> "none", default |-> NoDefault,
   optional |-> FALSE, properties |-> <<>>, items |-> <<item>>]
TOptional(schema) == [schema EXCEPT !.optional = TRUE]
Prop(key, schema) == [key |-> key, schema |-> schema]

\* Object.entries(schema.properties): array-index names first, ascending,
\* then the other names in insertion order.
RECURSIVE IndexEntries(_, _)
IndexEntries(props, i) ==
  IF i > MaxIndexKey THEN <<>>
  ELSE SelectSeq(props, LAMBDA p : KeyIndex(p.key) = i) \o IndexEntries(props, i + 1)

ObjectEntries(props) ==
  IndexEntries(props, 0) \o SelectSeq(props, LAMBDA p : KeyIndex(p.key) = -1)

(* ------------------------------------------------------------------ *)
(* getObjectIdPaths                                                     *)
(* ------------------------------------------------------------------ *)
RECURSIVE traverse(_, _)
RECURSIVE traverseEntries(_, _)
RECURSIVE traverseEntriesReversed(_, _)

\* mutant of traverseEntries: the properties are visited last to first
traverseEntriesReversed(entries, path) ==
  IF entries = <<>> THEN <<>>
  ELSE LET key == Head(entries).key
           newPath == IF path # EmptyPath THEN path \o Pieces(key) ELSE Pieces(key)
       IN traverseEntriesReversed(Tail(entries), path) \o traverse(Head(entries).schema, newPath)

traverseEntries(entries, path) ==
  IF entries = <<>> THEN <<>>
  ELSE LET key == Head(entries).key
           newPath == IF path # EmptyPath THEN path \o Pieces(key) ELSE Pieces(key)
       IN traverse(Head(entries).schema, newPath) \o traverseEntries(Tail(entries), path)

traverse(schema, path) ==
  IF schema.format = "objectid" THEN <<path>>
  ELSE (IF schema.type = "object"
          THEN traverseEntries(ObjectEntries(schema.properties), path)
          ELSE <<>>)
       \o
       (IF schema.type = "array" /\ schema.items # <<>>
          THEN traverse(schema.items[1], path \o <<"*">>)
          ELSE <<>>)

getObjectIdPaths(schema) == traverse(schema, EmptyPath)

(* ------------------------------------------------------------------ *)
(* Property access on a JavaScript value                                *)
(* ------------------------------------------------------------------ *)
\* target[key] throws a TypeError exactly when target is null or undefined
Nullish(v) == v.k \in {"undefined", "null"}

\* target[key] for a target that is not nullish
Get(target, key) ==
  CASE target.k = "object" ->
         IF key \in DOMAIN target.f THEN target.f[key] ELSE Undef
    [] target.k = "array" ->
         IF KeyIndex(key) >= 0 /\ KeyIndex(key) < Len(target.e)
           THEN target.e[KeyIndex(key) + 1] ELSE Undef
    [] target.k = "string" ->
         \* a character of the string: a one-character string
         IF KeyIndex(key) >= 0 /\ target.s # "" THEN Str("c") ELSE Undef
    [] OTHER -> Undef

\* the tree after target[key] = val (an assignment to a property of a
\* primitive is dropped)
Put(target, key, val) ==
  CASE target.k = "object" ->
         Obj([x \in DOMAIN target.f \cup {key} |-> IF x = key THEN val ELSE target.f[x]])
    [] target.k = "array" ->
         IF KeyIndex(key) >= 0 /\ KeyIndex(key) < Len(target.e)
           THEN Arr([target.e EXCEPT ![KeyIndex(key) + 1] = val]) ELSE target
    [] OTHER -> target

\* Array.isArray(target?.items)
HasItemsArray(target) ==
  target.k = "object" /\ "items" \in DOMAIN target.f /\ target.f["items"].k = "array"

\* outcome of a walk: ok = FALSE when a TypeError was raised; v is the
\* tree as the walk left it (mutation is in place, so what was written
\* before the throw stays written)
Walked(ok, v) == [ok |-> ok, v |-> v]

(* ------------------------------------------------------------------ *)
(* convertStringsToObjectIds                                            *)
(* ------------------------------------------------------------------ *)
RECURSIVE s2oSetValue(_, _)
RECURSIVE s2oForEach(_, _)

s2oForEach(elems, rest) ==
  IF elems = <<>> THEN Walked(TRUE, <<>>)
  ELSE LET r == s2oSetValue(Head(elems), rest)
       IN IF ~r.ok THEN Walked(FALSE, <<r.v>> \o Tail(elems))
          ELSE LET rs == s2oForEach(Tail(elems), rest)
               IN Walked(rs.ok, <<r.v>> \o rs.v)

s2oSetValue(target, segments) ==
  IF segments = <<>> THEN Walked(TRUE, target)
  ELSE
    LET first == Head(segments)
        rest == Tail(segments)
    IN IF first = "*" THEN
         IF target.k = "array" THEN
           LET r == s2oForEach(target.e, rest) IN Walked(r.ok, Arr(r.v))
         ELSE IF HasItemsArray(target) THEN
           LET r == s2oForEach(target.f["items"].e, rest)
           IN Walked(r.ok, Put(target, "items", Arr(r.v)))
         ELSE Walked(TRUE, target)
       ELSE IF rest = <<>> THEN
         IF Nullish(target) THEN Walked(FALSE, target)
         ELSE IF ObjectIdIsValid(Get(target, first))
           THEN Walked(TRUE, Put(target, first, NewObjectId(Get(target, first))))
           ELSE Walked(TRUE, target)
       ELSE
         IF Nullish(target) THEN Walked(FALSE, target)
         ELSE IF Truthy(Get(target, first)) THEN
           LET r == s2oSetValue(Get(target, first), rest)
           IN Walked(r.ok, Put(target, first, r.v))
         ELSE Walked(TRUE, target)

\* for (const path of oidPaths) if (path !== '') setValue(obj, path.split('.'))
RECURSIVE s2oPaths(_, _)
s2oPaths(obj, oidPaths) ==
  IF oidPaths = <<>> THEN Walked(TRUE, obj)
  ELSE IF Head(oidPaths) = EmptyPath THEN s2oPaths(obj, Tail(oidPaths))
  ELSE LET r == s2oSetValue(obj, Head(oidPaths))
       IN IF ~r.ok THEN r ELSE s2oPaths(r.v, Tail(oidPaths))

\* Outcome of convertStringsToObjectIds(obj, schema, oidPaths):
\*   ok  - FALSE when the call raised (threw is its negation)
\*   ret - the returned value (when ok)
\*   obj - the tree obj refers to after the call (mutated in place)
Outcome(ok, ret, obj) == [ok |-> ok, threw |-> ~ok, ret |-> ret, obj |-> obj]

convertStringsToObjectIds(obj, schema, oidPaths) ==
  IF oidPaths = <<EmptyPath>> /\ obj.k = "undefined" /\ DefaultTruthy(schema.default)
    THEN IF schema.default.kind = "literal" /\ ObjectIdIsValid(Str(schema.default.s))
           THEN Outcome(TRUE, NewObjectId(Str(schema.default.s)), obj)
           ELSE Outcome(FALSE, Undef, obj)
  ELSE IF oidPaths = <<EmptyPath>> /\ ObjectIdIsValid(obj)
    THEN Outcome(TRUE, NewObjectId(obj), obj)
  ELSE IF oidPaths = <<EmptyPath>> /\ obj.k = "oid"
    THEN Outcome(TRUE, obj, obj)
  ELSE LET r == s2oPaths(obj, oidPaths) IN Outcome(r.ok, r.v, r.v)

(* ------------------------------------------------------------------ *)
(* convertObjectIdToStrings                                             *)
(* ------------------------------------------------------------------ *)
RECURSIVE o2sSetValue(_, _)
RECURSIVE o2sForEach(_, _)

o2sForEach(elems, rest) ==
  IF elems = <<>> THEN Walked(TRUE, <<>>)
  ELSE LET r == o2sSetValue(Head(elems), rest)
       IN IF ~r.ok THEN Walked(FALSE, <<r.v>> \o Tail(elems))
          ELSE LET rs == o2sForEach(Tail(elems), rest)
               IN Walked(rs.ok, <<r.v>> \o rs.v)

o2sSetValue(target, segments) ==
  IF segments = <<>> THEN Walked(TRUE, target)
  ELSE
    LET first == Head(segments)
        rest == Tail(segments)
    IN IF first = "*" THEN
         IF target.k = "array" THEN
           LET r == o2sForEach(target.e, rest) IN Walked(r.ok, Arr(r.v))
         ELSE IF HasItemsArray(target) THEN
           LET r == o2sForEach(target.f["items"].e, rest)
           IN Walked(r.ok, Put(target, "items", Arr(r.v)))
         ELSE Walked(TRUE, target)
       ELSE IF rest = <<>> THEN
         IF Nullish(target) THEN Walked(FALSE, target)
         ELSE IF Get(target, first).k = "oid"
           THEN Walked(TRUE, Put(target, first, OidToString(Get(target, first))))
           ELSE Walked(TRUE, target)
       ELSE
         IF Nullish(target) THEN Walked(FALSE, target)
         ELSE IF Truthy(Get(target, first)) THEN
           LET r == o2sSetValue(Get(target, first), rest)
           IN Walked(r.ok, Put(target, first, r.v))
         ELSE Walked(TRUE, target)

RECURSIVE o2sPaths(_, _)
o2sPaths(obj, oidPaths) ==
  IF oidPaths = <<>> THEN Walked(TRUE, obj)
  ELSE IF Head(oidPaths) = EmptyPath THEN o2sPaths(obj, Tail(oidPaths))
  ELSE LET r == o2sSetValue(obj, Head(oidPaths))
       IN IF ~r.ok THEN r ELSE o2sPaths(r.v, Tail(oidPaths))

convertObjectIdToStrings(obj, schema, oidPaths) ==
  IF oidPaths = <<EmptyPath>>
    THEN IF obj.k = "oid" THEN Outcome(TRUE, OidToString(obj), obj)
         ELSE Outcome(TRUE, obj, obj)
  ELSE LET r == o2sPaths(obj, oidPaths) IN Outcome(r.ok, r.v, r.v)

(* ------------------------------------------------------------------ *)
(* convertStringsToObjectIds(convertObjectIdToStrings(obj, ...), ...)   *)
(* ------------------------------------------------------------------ *)
\* from the outcome of the inner call on; obj stays the caller's tree
roundTripFrom(inner, schema, oidPaths) ==
  IF ~inner.ok THEN Outcome(FALSE, Undef, inner.obj)
  ELSE LET outer == convertStringsToObjectIds(inner.ret, schema, oidPaths)
       IN Outcome(outer.ok, outer.ret,
                  IF oidPaths = <<EmptyPath>> THEN inner.obj ELSE outer.obj)

roundTrip(obj, schema, oidPaths) ==
  roundTripFrom(convertObjectIdToStrings(obj, schema, oidPaths), schema, oidPaths)

(* ------------------------------------------------------------------ *)
(* A mutator applied to its own result                                  *)
(* ------------------------------------------------------------------ *)
\* the two outcomes of f(f(obj)): second is the outcome of the call on
\* what the first call returned (the first outcome again when the first
\* call raised); caller is the tree obj refers to afterwards
Twice(first, second, caller) == [first |-> first, second |-> second, caller |-> caller]

s2oAgain(first, schema, oidPaths) ==
  IF ~first.ok THEN Twice(first, first, first.obj)
  ELSE LET second == convertStringsToObjectIds(first.ret, schema, oidPaths)
       IN Twice(first, second,
                IF oidPaths = <<EmptyPath>> THEN first.obj ELSE second.obj)

s2oTwice(obj, schema, oidPaths) ==
  s2oAgain(convertStringsToObjectIds(obj, schema, oidPaths), schema, oidPaths)

o2sAgain(first, schema, oidPaths) ==
  IF ~first.ok THEN Twice(first, first, first.obj)
  ELSE LET second == convertObjectIdToStrings(first.ret, schema, oidPaths)
       IN Twice(first, second,
                IF oidPaths = <<EmptyPath>> THEN first.obj ELSE second.obj)

o2sTwice(obj, schema, oidPaths) ==
  o2sAgain(convertObjectIdToStrings(obj, schema, oidPaths), schema, oidPaths)

(* ------------------------------------------------------------------ *)
(* The parse pipeline of the schema library: Value.Parse(opts, ...)     *)
(* ------------------------------------------------------------------ *)
\* the bytes an ObjectId instance owns
Bytes(h) == [k |-> "bytes", s |-> h]
\* strings that read as numbers
NumericStrings == {"30", "0"}

\* the schema of property key, for a key the object schema declares
RECURSIVE PropSchema(_, _)
PropSchema(props, key) ==
  IF Head(props).key = key THEN Head(props).schema ELSE PropSchema(Tail(props), key)
PropKeys(props) == {props[i].key : i \in 1..Len(props)}

\* typeof v === 'object' && v !== null
IsObjectLike(v) == v.k \in {"object", "array", "oid", "bytes"}

\* Stage Clone: a deep copy; a class instance is copied as a plain object
\* of its own properties
RECURSIVE ValueClone(_)
ValueClone(v) ==
  CASE v.k = "object" -> Obj([x \in DOMAIN v.f |-> ValueClone(v.f[x])])
    [] v.k = "array" -> Arr([i \in 1..Len(v.e) |-> ValueClone(v.e[i])])
    [] v.k = "oid" -> Obj("buffer" :> Bytes(v.s))
    [] OTHER -> v

\* Stage Clean: drops the properties the schema does not declare
RECURSIVE ValueClean(_, _)
ValueClean(schema, v) ==
  CASE schema.type = "object" /\ v.k = "object" ->
         Obj([x \in DOMAIN v.f \cap PropKeys(schema.properties) |->
                ValueClean(PropSchema(schema.properties, x), v.f[x])])
    [] schema.type = "array" /\ v.k = "array" ->
         Arr([i \in 1..Len(v.e) |-> ValueClean(schema.items[1], v.e[i])])
    [] OTHER -> v

\* the value a default annotation yields (a generator that is not random
\* yields undefined)
DefaultOf(d) == IF d.kind = "literal" THEN Str(d.s) ELSE Undef
ValueOrDefault(schema, v) == IF v.k = "undefined" THEN DefaultOf(schema.default) ELSE v

\* Stage Default: fills undefined positions from the default annotations
RECURSIVE ValueDefault(_, _)
RECURSIVE DefaultProps(_, _)
DefaultProps(entries, obj) ==
  IF entries = <<>> THEN obj
  ELSE LET key == Head(entries).key
           pv == ValueDefault(Head(entries).schema, Get(obj, key))
       IN DefaultProps(Tail(entries), IF pv.k = "undefined" THEN obj ELSE Put(obj, key, pv))

ValueDefault(schema, v) ==
  CASE schema.type = "object" ->
         LET d == ValueOrDefault(schema, v)
         IN IF d.k = "object" THEN DefaultProps(ObjectEntries(schema.properties), d) ELSE d
    [] schema.type = "array" ->
         IF v.k = "array"
           THEN Arr([i \in 1..Len(v.e) |-> ValueDefault(schema.items[1], v.e[i])])
           ELSE ValueOrDefault(schema, v)
    [] OTHER -> ValueOrDefault(schema, v)

\* Stage Convert: converts a value to the schema's type when a reasonable
\* conversion exists
RECURSIVE ValueConvert(_, _)
ValueConvert(schema, v) ==
  CASE schema.type = "string" -> IF v.k = "number" THEN Str(v.s) ELSE v
    [] schema.type = "number" ->
         IF v.k = "string" /\ v.s \in NumericStrings THEN Num(v.s) ELSE v
    [] schema.type = "object" ->
         IF v.k = "object"
           THEN Obj([x \in DOMAIN v.f |->
                       IF x \in PropKeys(schema.properties)
                         THEN ValueConvert(PropSchema(schema.properties, x), v.f[x])
                         ELSE v.f[x]])
           ELSE v
    [] schema.type = "array" ->
         LET elements == IF v.k = "array" THEN v.e ELSE <<v>>
         IN Arr([i \in 1..Len(elements) |-> ValueConvert(schema.items[1], elements[i])])
    [] OTHER -> v

ParseStage(op, schema, v) ==
  CASE op = "Clone" -> ValueClone(v)
    [] op = "Clean" -> ValueClean(schema, v)
    [] op = "Default" -> ValueDefault(schema, v)
    [] op = "Convert" -> ValueConvert(schema, v)
    [] OTHER -> v

\* Value.Parse(opts, schema, value): the stages run in the order given
RECURSIVE ValueParse(_, _, _)
ValueParse(opts, schema, v) ==
  IF opts = <<>> THEN v
  ELSE ValueParse(Tail(opts), schema, ParseStage(Head(opts), schema, v))

(* ------------------------------------------------------------------ *)
(* The compiled checker: schema._compiled.Check / .Errors(...).First()  *)
(* ------------------------------------------------------------------ *)
Emails == {"a@b.c"}
\* the predicates installed in the format registry
FormatOk(format, s) ==
  CASE format = "objectid" -> s \in Hex24
    [] format = "email" -> s \in Emails
    [] OTHER -> TRUE
FormatMessage(format) ==
  IF format = "objectid" THEN "Expected string to match 'objectid' format"
  ELSE "Expected string to match 'email' format"

IndexName(i) == <<"0", "1", "2", "3", "4">>[i + 1]
ValueError(message, path, v) == [message |-> message, path |-> path, value |-> v]
\* a violation raised against a schema: it carries the schema's
\* errorMessage annotation when the schema has one
ValueErrorAt(schema, message, path, v) ==
  IF "errorMessage" \in DOMAIN schema
    THEN [message |-> message, path |-> path, value |-> v,
          errorMessage |-> schema.errorMessage]
    ELSE ValueError(message, path, v)

\* the schema Utils.ObjectId of the Encode/Decode generation builds: a
\* Transform over Union([RegExp(24 hex), Object({ _bsontype: 'ObjectID',
\* generationTime, id })])
TransformKind == "objectid-transform"
\* whether a value matches one of the two variants of that union
MatchesLegacyObject(v) ==
  /\ v.k = "object"
  /\ {"_bsontype", "generationTime", "id"} \subseteq DOMAIN v.f
  /\ v.f["_bsontype"] = Str("ObjectID")
  /\ v.f["generationTime"].k = "number"
MatchesUnion(v) == ObjectIdIsValid(v) \/ MatchesLegacyObject(v)

RequiredEntries(props) == SelectSeq(ObjectEntries(props), LAMBDA p : ~p.schema.optional)

\* the violations in the order the checker reports them
RECURSIVE Errors(_, _, _)
RECURSIVE MissingErrors(_, _, _)
RECURSIVE PropertyErrors(_, _, _)
RECURSIVE ElementErrors(_, _, _, _)

MissingErrors(entries, path, v) ==
  IF entries = <<>> THEN <<>>
  ELSE (IF Head(entries).key \in DOMAIN v.f THEN <<>>
        ELSE <<ValueErrorAt(Head(entries).schema, "Expected required property",
                            path \o <<Head(entries).key>>, Undef)>>)
       \o MissingErrors(Tail(entries), path, v)

PropertyErrors(entries, path, v) ==
  IF entries = <<>> THEN <<>>
  ELSE LET p == Head(entries)
       IN (IF ~p.schema.optional \/ Get(v, p.key).k # "undefined"
             THEN Errors(p.schema, path \o <<p.key>>, Get(v, p.key))
             ELSE <<>>)
          \o PropertyErrors(Tail(entries), path, v)

ElementErrors(schema, path, elems, i) ==
  IF i > Len(elems) THEN <<>>
  ELSE Errors(schema, path \o <<IndexName(i - 1)>>, elems[i])
       \o ElementErrors(schema, path, elems, i + 1)

Errors(schema, path, v) ==
  CASE schema.type = "string" ->
         IF v.k # "string" THEN <<ValueError("Expected string", path, v)>>
         ELSE IF schema.format # "none" /\ ~FormatOk(schema.format, v.s)
           THEN <<ValueError(FormatMessage(schema.format), path, v)>>
           ELSE <<>>
    [] schema.type = "number" ->
         IF v.k # "number" THEN <<ValueError("Expected number", path, v)>> ELSE <<>>
    [] schema.type = "object" ->
         IF v.k # "object" THEN <<ValueError("Expected object", path, v)>>
         ELSE MissingErrors(RequiredEntries(schema.properties), path, v)
              \o PropertyErrors(ObjectEntries(schema.properties), path, v)
    [] schema.type = "array" ->
         IF v.k # "array" THEN <<ValueError("Expected array", path, v)>>
         ELSE ElementErrors(schema.items[1], path, v.e, 1)
    [] schema.type = TransformKind ->
         IF MatchesUnion(v) THEN <<>>
         ELSE <<ValueErrorAt(schema, "Expected union value", path, v)>>
    [] OTHER -> <<>>

Check(schema, v) == Errors(schema, <<>>, v) = <<>>

(* ------------------------------------------------------------------ *)
(* JSON.stringify                                                       *)
(* ------------------------------------------------------------------ *)
RECURSIVE JsonStringify(_)
JsonStringify(v) ==
  CASE v.k = "string" -> [j |-> "string", s |-> v.s]
    [] v.k = "oid" -> [j |-> "string", s |-> v.s]
    [] v.k = "number" -> [j |-> "number", s |-> v.s]
    [] v.k = "bytes" -> [j |-> "bytes", s |-> v.s]
    [] v.k = "object" ->
         [j |-> "object",
          f |-> [x \in {y \in DOMAIN v.f : v.f[y].k # "undefined"} |-> JsonStringify(v.f[x])]]
    [] v.k = "array" ->
         [j |-> "array",
          e |-> [i \in 1..Len(v.e) |->
                   IF v.e[i].k = "undefined" THEN [j |-> "null"] ELSE JsonStringify(v.e[i])]]
    [] OTHER -> [j |-> "null"]

(* ------------------------------------------------------------------ *)
(* validate                                                             *)
(* ------------------------------------------------------------------ *)
\* setDifference(setA, setB), in the insertion order of setA
setDifference(setA, setB) == SelectSeq(setA, LAMBDA elem : elem \notin setB)

\* the stage list handed to Value.Parse
ParseOpts(skipOperations) ==
  <<"Clone">> \o setDifference(<<"Clone", "Clean", "Default", "Convert">>, skipOperations)

\* the error string `${E.message || 'Invalid value'}${path}${errorValue}`:
\* at is the path shown in " at '<path>'" (empty when that part is left
\* out), got holds the JSON text shown in " (got <json>)" (empty when
\* that part is left out)
ErrorMessage(E) ==
  [message |-> IF E.message # "" THEN E.message ELSE "Invalid value",
   at |-> E.path,
   got |-> IF Truthy(E.value) THEN <<JsonStringify(E.value)>> ELSE <<>>]

\* Result of a call:
\*   threw  - the call raised instead of returning
\*   err    - <<>> for null, else <<message>>
\*   val    - the second slot (when the call returned)
\*   caller - what the caller's argument looks like after the call
Result(threw, err, val, caller) ==
  [threw |-> threw, err |-> err, val |-> val, caller |-> caller]

\* validate is written as a chain of steps, each taking what the lines
\* before it have computed.
\* index.ts:336-339, after the check has passed
validateConverted(post, pre) ==
  IF ~post.ok THEN Result(TRUE, <<>>, Undef, pre.obj)
  ELSE Result(FALSE, <<>>, post.ret, pre.obj)

\* mutant of validateChecked: the strings are not converted back
validateCheckedSkipsConversion(errs, VP, pre, schema, containsObjectId, oidPaths) ==
  IF errs # <<>> THEN Result(FALSE, <<ErrorMessage(Head(errs))>>, pre.obj, pre.obj)
  ELSE Result(FALSE, <<>>, VP, pre.obj)

\* index.ts:330-339, from the violations of the parsed value on
validateChecked(errs, VP, pre, schema, containsObjectId, oidPaths) ==
  IF errs # <<>> THEN Result(FALSE, <<ErrorMessage(Head(errs))>>, pre.obj, pre.obj)
  ELSE IF containsObjectId
    THEN validateConverted(convertStringsToObjectIds(VP, schema, oidPaths), pre)
    ELSE Result(FALSE, <<>>, VP, pre.obj)

\* index.ts:328-339, from the parsed value on
validateParsed(VP, pre, schema, containsObjectId, oidPaths) ==
  validateChecked(Errors(schema, <<>>, VP), VP, pre, schema, containsObjectId, oidPaths)

\* index.ts:327-339, from the outcome of the identifier-to-string pass on
validateFrom(pre, opts, schema, containsObjectId, oidPaths) ==
  IF ~pre.ok THEN Result(TRUE, <<>>, Undef, pre.obj)
  ELSE validateParsed(ValueParse(opts, schema, pre.obj), pre, schema, containsObjectId,
                      oidPaths)

\* index.ts:323-339, with the located paths
validateWithPaths(value, schema, containsObjectId, skipOperations, oidPaths) ==
  validateFrom(IF containsObjectId
                 THEN convertObjectIdToStrings(value, schema, oidPaths)
                 ELSE Outcome(TRUE, value, value),
               ParseOpts(skipOperations), schema, containsObjectId, oidPaths)

validate(value, schema, containsObjectId, skipOperations) ==
  validateWithPaths(value, schema, containsObjectId, skipOperations,
                    getObjectIdPaths(schema))

(* ------------------------------------------------------------------ *)
(* validateArray                                                        *)
(* ------------------------------------------------------------------ *)
BatchResult(threw, results) == [threw |-> threw, results |-> results]
\* the result of the map from the result of its first call and the
\* results of the remaining calls; a raise in one call ends the map
BatchCons(r, rs) ==
  IF r.threw \/ rs.threw THEN BatchResult(TRUE, <<>>)
  ELSE BatchResult(FALSE, <<r>> \o rs.results)

\* mutant of validateArray: the map ends at the first failed element
RECURSIVE validateArrayStopsAtFailure(_, _)
validateArrayStopsAtFailure(values, schema) ==
  IF values = <<>> THEN BatchResult(FALSE, <<>>)
  ELSE IF validate(Head(values), schema, FALSE, {}).err # <<>>
    THEN BatchResult(FALSE, <<validate(Head(values), schema, FALSE, {})>>)
    ELSE BatchCons(validate(Head(values), schema, FALSE, {}),
                   validateArrayStopsAtFailure(Tail(values), schema))

\* values.map(value => validate(value, schema))
RECURSIVE validateArray(_, _)
validateArray(values, schema) ==
  IF values = <<>> THEN BatchResult(FALSE, <<>>)
  ELSE BatchCons(validate(Head(values), schema, FALSE, {}),
                 validateArray(Tail(values), schema))

(* ------------------------------------------------------------------ *)
(* The earlier generation of the module (index.ts:396-622):             *)
(* ObjectIdType, convertObjectIds, validate(value, schema, operations)  *)
(* ------------------------------------------------------------------ *)
\* '666666666666666666666666'
Sentinel == "h6"
\* ObjectIdType(autoGenerate)
ObjectIdType(autoGenerate) ==
  TString("objectid", IF autoGenerate THEN LitDefault(Sentinel) ELSE NoDefault)

\* the hex string of the n-th identifier that new ObjectId() mints
FreshHex(n) == <<"n1", "n2", "n3", "n4", "n5", "n6", "n7", "n8">>[n]
FreshHexes == {FreshHex(n) : n \in 1..8}

\* outcome of a walk that may mint identifiers: n counts the identifiers
\* minted so far
WalkedN(ok, v, n) == [ok |-> ok, v |-> v, n |-> n]

\* mutant of autoNewId: the sentinel is not recognised
autoNewIdIgnoresSentinel(v, n) == WalkedN(TRUE, NewObjectId(v), n)

\* index.ts:509-513 (and 487-490): the identifier a valid string becomes
autoNewId(v, n) ==
  IF v.s = Sentinel THEN WalkedN(TRUE, Oid(FreshHex(n + 1)), n + 1)
  ELSE WalkedN(TRUE, NewObjectId(v), n)

RECURSIVE autoSetValue(_, _, _)
RECURSIVE autoForEach(_, _, _)

autoForEach(elems, rest, n) ==
  IF elems = <<>> THEN WalkedN(TRUE, <<>>, n)
  ELSE LET r == autoSetValue(Head(elems), rest, n)
       IN IF ~r.ok THEN WalkedN(FALSE, <<r.v>> \o Tail(elems), r.n)
          ELSE LET rs == autoForEach(Tail(elems), rest, r.n)
               IN WalkedN(rs.ok, <<r.v>> \o rs.v, rs.n)

autoSetValue(target, segments, n) ==
  IF segments = <<>> THEN WalkedN(TRUE, target, n)
  ELSE
    LET first == Head(segments)
        rest == Tail(segments)
    IN IF first = "*" THEN
         IF target.k = "array" THEN
           LET r == autoForEach(target.e, rest, n) IN WalkedN(r.ok, Arr(r.v), r.n)
         ELSE IF HasItemsArray(target) THEN
           LET r == autoForEach(target.f["items"].e, rest, n)
           IN WalkedN(r.ok, Put(target, "items", Arr(r.v)), r.n)
         ELSE WalkedN(TRUE, target, n)
       ELSE IF rest = <<>> THEN
         IF Nullish(target) THEN WalkedN(FALSE, target, n)
         ELSE IF ObjectIdIsValid(Get(target, first))
           THEN LET id == autoNewId(Get(target, first), n)
                IN WalkedN(TRUE, Put(target, first, id.v), id.n)
           ELSE WalkedN(TRUE, target, n)
       ELSE
         IF Nullish(target) THEN WalkedN(FALSE, target, n)
         ELSE IF Truthy(Get(target, first)) THEN
           LET r == autoSetValue(Get(target, first), rest, n)
           IN WalkedN(r.ok, Put(target, first, r.v), r.n)
         ELSE WalkedN(TRUE, target, n)

RECURSIVE autoPaths(_, _, _)
autoPaths(obj, paths, n) ==
  IF paths = <<>> THEN WalkedN(TRUE, obj, n)
  ELSE IF Head(paths) = EmptyPath THEN autoPaths(obj, Tail(paths), n)
  ELSE LET r == autoSetValue(obj, Head(paths), n)
       IN IF ~r.ok THEN r ELSE autoPaths(r.v, Tail(paths), r.n)

\* mutant of convertObjectIdsAt: a root value that is already an
\* identifier is replaced by a newly minted one
convertObjectIdsAtMintsAgain(obj, schema, paths, n) ==
  IF paths = <<EmptyPath>> /\ obj.k = "undefined" /\ DefaultTruthy(schema.default)
    THEN IF schema.default.kind = "literal" /\ ObjectIdIsValid(Str(schema.default.s))
           THEN WalkedN(TRUE, NewObjectId(Str(schema.default.s)), n)
           ELSE WalkedN(FALSE, obj, n)
  ELSE IF paths = <<EmptyPath>> /\ ObjectIdIsValid(obj) THEN autoNewId(obj, n)
  ELSE IF paths = <<EmptyPath>> /\ obj.k = "oid"
    THEN WalkedN(TRUE, Oid(FreshHex(n + 1)), n + 1)
  ELSE autoPaths(obj, paths, n)

\* convertObjectIds(obj, schema) with n identifiers minted before the
\* call; paths is getObjectIdPaths(schema)
convertObjectIdsAt(obj, schema, paths, n) ==
  IF paths = <<EmptyPath>> /\ obj.k = "undefined" /\ DefaultTruthy(schema.default)
    THEN IF schema.default.kind = "literal" /\ ObjectIdIsValid(Str(schema.default.s))
           THEN WalkedN(TRUE, NewObjectId(Str(schema.default.s)), n)
           ELSE WalkedN(FALSE, obj, n)
  ELSE IF paths = <<EmptyPath>> /\ ObjectIdIsValid(obj) THEN autoNewId(obj, n)
  ELSE IF paths = <<EmptyPath>> /\ obj.k = "oid" THEN WalkedN(TRUE, obj, n)
  ELSE autoPaths(obj, paths, n)

convertObjectIds(obj, schema, n) == convertObjectIdsAt(obj, schema, getObjectIdPaths(schema), n)

\* convertObjectIds(convertObjectIds(obj, schema), schema)
autoAgain(obj, first, schema, paths) ==
  IF ~first.ok THEN Twice(first, first, first.v)
  ELSE LET second == convertObjectIdsAt(first.v, schema, paths, first.n)
       IN Twice(first, second, IF paths = <<EmptyPath>> THEN obj ELSE second.v)

autoTwice(obj, schema, n) ==
  autoAgain(obj, convertObjectIdsAt(obj, schema, getObjectIdPaths(schema), n),
            schema, getObjectIdPaths(schema))

\* Result of a call of the earlier validate: as Result, with the number
\* of identifiers minted when the call ends
Result2(threw, err, val, caller, n) ==
  [threw |-> threw, err |-> err, val |-> val, caller |-> caller, n |-> n]

\* index.ts:596-597
validate2Converted(VC, value) ==
  IF ~VC.ok THEN Result2(TRUE, <<>>, Undef, value, VC.n)
  ELSE Result2(FALSE, <<>>, VC.v, value, VC.n)

\* index.ts:589-597
validate2Checked(errs, VP, value, schema, n) ==
  IF errs # <<>> THEN Result2(FALSE, <<ErrorMessage(Head(errs))>>, value, value, n)
  ELSE validate2Converted(convertObjectIds(VP, schema, n), value)

\* index.ts:587-597
validate2Parsed(VP, value, schema, n) ==
  validate2Checked(Errors(schema, <<>>, VP), VP, value, schema, n)

\* validate(value, schema, operations) of the earlier generation, for
\* operations that start with Clone
validate2(value, schema, operations, n) ==
  validate2Parsed(ValueParse(operations, schema, value), value, schema, n)

(* ------------------------------------------------------------------ *)
(* The schema factories Utils.UUID, Utils.Email, Utils.Mobile and       *)
(* Utils.ObjectId                                                       *)
(* ------------------------------------------------------------------ *)
\* strings that match the UUID v4 pattern, and the 10-digit pattern
Uuids == {"u4"}
Mobiles == {"9876543210"}
UuidTest(s) == s \in Uuids
EmailTest(s) == s \in {"a@b.c"}
MobileTest(s) == s \in Mobiles

\* a default that is a generator function drawing a random value
FnRandom == [kind |-> "random"]

\* the config argument: undefined, or { default, random }
Config(default, random) == [k |-> "config", default |-> default, random |-> random]
\* config?.default and config?.random
ConfigDefault(config) == IF config.k = "undefined" THEN Undef ELSE config.default
ConfigRandom(config) == config.k # "undefined" /\ config.random

\* the outcome of a factory call: a schema, or the Error it throws
Built(schema) == [threw |-> FALSE, schema |-> schema]
Thrown(message, arg) == [threw |-> TRUE, message |-> message, arg |-> arg]

\* config?.default || (config?.random ? () => ... : undefined)
DefaultOrRandom(config) ==
  IF Truthy(ConfigDefault(config)) THEN LitDefault(ConfigDefault(config).s)
  ELSE IF ConfigRandom(config) THEN FnRandom ELSE NoDefault

\* Type.String({ pattern, default })
TPattern(pattern, default) ==
  [type |-> "string", format |-> "none", pattern |-> pattern, default |-> default,
   optional |-> FALSE, properties |-> <<>>, items |-> <<>>]

UtilsUUIDFactory(config) ==
  IF Truthy(ConfigDefault(config)) /\ ~UuidTest(ConfigDefault(config).s)
    THEN Thrown("Invalid default value for UUID ", ConfigDefault(config))
  ELSE Built(TPattern("uuid", DefaultOrRandom(config)))

UtilsEmailFactory(config) ==
  IF Truthy(ConfigDefault(config)) /\ ~EmailTest(ConfigDefault(config).s)
    THEN Thrown("Invalid default value for Email ", ConfigDefault(config))
  ELSE Built(TString("email",
               IF ConfigRandom(config) THEN FnRandom
               ELSE IF ConfigDefault(config).k = "undefined" THEN NoDefault
               ELSE LitDefault(ConfigDefault(config).s)))

UtilsMobileFactory(config) ==
  IF Truthy(ConfigDefault(config)) /\ ~MobileTest(ConfigDefault(config).s)
    THEN Thrown("Invalid default value for Mobile ", ConfigDefault(config))
  ELSE Built(TString("mobile", DefaultOrRandom(config)))

UtilsObjectIdFactory(config) ==
  IF Truthy(ConfigDefault(config))
    THEN IF ObjectIdIsValid(ConfigDefault(config))
           THEN Built(TString("objectid", LitDefault(ConfigDefault(config).s)))
           ELSE Thrown("Invalid default value for ObjectIdType ", ConfigDefault(config))
  ELSE Built(TString("objectid", IF ConfigRandom(config) THEN FnRandom ELSE FnDefault))

FactoryKinds == {"UUID", "Email", "Mobile", "ObjectId"}
Factory(kind, config) ==
  CASE kind = "UUID" -> UtilsUUIDFactory(config)
    [] kind = "Email" -> UtilsEmailFactory(config)
    [] kind = "Mobile" -> UtilsMobileFactory(config)
    [] OTHER -> UtilsObjectIdFactory(config)

\* the literal defaults tried, and the configs built from them
DefaultStrings == {"", "bad", "a@b.c", "u4", "9876543210", "h1", "H1"}
Configs ==
  {Undef} \cup {Config(d, r) : d \in {Undef} \cup {Str(x) : x \in DefaultStrings},
                               r \in BOOLEAN}

(* ------------------------------------------------------------------ *)
(* Encode and Decode (the generation of the package built on Transform) *)
(* ------------------------------------------------------------------ *)
UnionErrorMessage == "Expected either a 24-character hex string or an ObjectID"
\* Utils.ObjectId(config) of that generation
CodecObjectId(config) ==
  [type |-> TransformKind, format |-> "none",
   default |-> IF Truthy(ConfigDefault(config))
                 THEN LitDefault(ConfigDefault(config).s) ELSE NoDefault,
   optional |-> FALSE, properties |-> <<>>, items |-> <<>>,
   errorMessage |-> UnionErrorMessage]

\* HasTransform(type)
RECURSIVE HasTransform(_)
HasTransform(s) ==
  \/ s.type = TransformKind
  \/ \E i \in 1..Len(s.properties) : HasTransform(s.properties[i].schema)
  \/ \E i \in 1..Len(s.items) : HasTransform(s.items[i])

\* String(v), as a template literal renders a value
TemplateString(v) ==
  CASE v.k = "undefined" -> "undefined"
    [] v.k = "null" -> "null"
    [] v.k \in {"string", "number", "oid"} -> v.s
    [] OTHER -> "[object Object]"

\* the Encode callback: value instanceof ObjectId ? value.toString() : String(value)
EncodeCallback(v) == IF v.k = "oid" THEN OidToString(v) ELSE Str(TemplateString(v))
\* TransformEncode at a position typed by the transformed union
TransformEncodeId(v) == EncodeCallback(v)

\* TransformEncode(schema, value): objects are rebuilt, known properties
\* that are present and not undefined are encoded
RECURSIVE TransformEncode(_, _)
TransformEncode(s, v) ==
  CASE s.type = TransformKind -> TransformEncodeId(v)
    [] s.type = "object" /\ v.k = "object" ->
         Obj([x \in DOMAIN v.f |->
                IF x \in PropKeys(s.properties) /\ v.f[x].k # "undefined"
                  THEN TransformEncode(PropSchema(s.properties, x), v.f[x])
                  ELSE v.f[x]])
    [] OTHER -> v

BsonErrorMessage == "input must be a 24 character hex string, 12 byte Uint8Array, or an integer"
\* outcome of a decode: ok = FALSE when the Decode callback raised; error
\* is then what TransformDecodeError carries in its error property
Decoded(ok, v, error) == [ok |-> ok, v |-> v, error |-> error]
\* the Decode callback: typeof value === 'string' ? new ObjectId(value)
\*                                                : new ObjectId(value.id)
DecodeCallback(v) ==
  IF v.k = "string"
    THEN IF ObjectIdIsValid(v) THEN Decoded(TRUE, NewObjectId(v), <<>>)
         ELSE Decoded(FALSE, v, [message |-> BsonErrorMessage])
  ELSE IF Nullish(v) THEN Decoded(FALSE, v, [message |-> "Cannot read properties"])
  ELSE IF ObjectIdIsValid(Get(v, "id")) THEN Decoded(TRUE, NewObjectId(Get(v, "id")), <<>>)
  ELSE Decoded(FALSE, v, [message |-> BsonErrorMessage])

\* TransformDecode(schema, value)
RECURSIVE TransformDecode(_, _)
RECURSIVE TransformDecodeProps(_, _)
TransformDecodeProps(entries, obj) ==
  IF entries = <<>> THEN Decoded(TRUE, obj, <<>>)
  ELSE IF Head(entries).key \notin DOMAIN obj.f THEN TransformDecodeProps(Tail(entries), obj)
  ELSE LET d == TransformDecode(Head(entries).schema, obj.f[Head(entries).key])
       IN IF ~d.ok THEN d
          ELSE TransformDecodeProps(Tail(entries), Put(obj, Head(entries).key, d.v))
TransformDecode(s, v) ==
  CASE s.type = TransformKind -> DecodeCallback(v)
    [] s.type = "object" /\ v.k = "object" ->
         TransformDecodeProps(ObjectEntries(s.properties), v)
    [] OTHER -> Decoded(TRUE, v, <<>>)

\* the state of Value.Parse between two stages:
\*   ok     - no stage has raised
\*   cur    - the value handed to the next stage
\*   shared - cur is still the caller's own object
\*   caller - the caller's value tree
\*   error  - the error property of what was raised
Parsing(ok, cur, shared, caller, error) ==
  [ok |-> ok, cur |-> cur, shared |-> shared, caller |-> caller, error |-> error]

\* the stages Clean, Default and Convert work in place
CodecInPlace(op, s, st) ==
  [st EXCEPT !.cur = ParseStage(op, s, st.cur),
             !.caller = IF st.shared /\ st.cur.k = "object"
                          THEN ParseStage(op, s, st.cur) ELSE @]
\* Assert raises an AssertError whose error is the first violation
CodecAssert(s, st) ==
  IF Errors(s, <<>>, st.cur) = <<>> THEN st
  ELSE [st EXCEPT !.ok = FALSE, !.error = Head(Errors(s, <<>>, st.cur))]
CodecDecoded(d, st) ==
  IF d.ok THEN [st EXCEPT !.cur = d.v, !.shared = FALSE]
  ELSE [st EXCEPT !.ok = FALSE, !.error = d.error]
CodecStage(op, s, st) ==
  CASE op \in {"Clean", "Default", "Convert"} -> CodecInPlace(op, s, st)
    [] op = "Assert" -> CodecAssert(s, st)
    [] op = "Decode" ->
         IF HasTransform(s) THEN CodecDecoded(TransformDecode(s, st.cur), st) ELSE st
    [] op = "Encode" ->
         IF HasTransform(s)
           THEN [st EXCEPT !.cur = TransformEncode(s, st.cur), !.shared = FALSE]
           ELSE st
    [] OTHER -> st

\* Value.Parse(pipelines, type, value) without a Clone stage
RECURSIVE CodecParse(_, _, _)
CodecParse(pipelines, s, st) ==
  IF pipelines = <<>> \/ ~st.ok THEN st
  ELSE CodecParse(Tail(pipelines), s, CodecStage(Head(pipelines), s, st))

\* the message built in the catch block:
\*   msg + ` at path "${path}" but got "${passedValue}"`
CaughtMessage(error, unknown) ==
  [message |-> IF "errorMessage" \in DOMAIN error /\ error.errorMessage # ""
                 THEN error.errorMessage
               ELSE IF "message" \in DOMAIN error /\ error.message # ""
                 THEN error.message
               ELSE unknown,
   path |-> IF "path" \in DOMAIN error THEN error.path ELSE <<>>,
   got |-> IF "value" \in DOMAIN error /\ Truthy(error.value)
             THEN TemplateString(error.value) ELSE "undefined"]

\* the tuple returned, from the parse outcome on
CodecResult(st, unknown) ==
  IF st.ok THEN Result(FALSE, <<>>, st.cur, st.caller)
  ELSE Result(FALSE, <<CaughtMessage(st.error, unknown)>>, Undef, st.caller)

EncodePipelines(applyDefault) ==
  IF applyDefault THEN <<"Encode", "Assert", "Convert", "Default", "Clean">>
  ELSE <<"Encode", "Assert", "Convert", "Clean">>
DecodePipelines(applyDefault) ==
  IF applyDefault THEN <<"Clean", "Default", "Convert", "Assert", "Decode">>
  ELSE <<"Clean", "Convert", "Assert", "Decode">>

\* Encode(value, type, applyDefault)
Encode(v, type, applyDefault) ==
  CodecResult(CodecParse(EncodePipelines(applyDefault), type,
                         Parsing(TRUE, v, TRUE, v, <<>>)),
              "Unknown encoding error")
\* Decode(value, type, applyDefault)
Decode(v, type, applyDefault) ==
  CodecResult(CodecParse(DecodePipelines(applyDefault), type,
                         Parsing(TRUE, v, TRUE, v, <<>>)),
              "Unknown decoding error")

(* ------------------------------------------------------------------ *)
(* The schemas and the input values of the model                        *)
(* ------------------------------------------------------------------ *)
\* Utils.ObjectId() and Utils.ObjectId({ default }) for a valid default
UtilsObjectId == TString("objectid", FnDefault)
UtilsObjectIdDefault(d) == TString("objectid", LitDefault(d))
\* Utils.Email()
UtilsEmail == TString("email", NoDefault)

SchemaRootId == UtilsObjectId
SchemaRootIdDefault == UtilsObjectIdDefault("h2")
SchemaOptionalId == TObject(<<Prop("_id", TOptional(UtilsObjectIdDefault("H1")))>>)
SchemaEmail == TObject(<<Prop("email", UtilsEmail), Prop("age", TOptional(TNumber))>>)
SchemaContacts == TObject(<<Prop("contacts", TArray(UtilsObjectId))>>)
SchemaItems == TObject(<<Prop("items", TArray(TObject(<<Prop("id", UtilsObjectId)>>)))>>)
SchemaRootArray == TArray(UtilsObjectId)
SchemaRootArrayOfObjects == TArray(TObject(<<Prop("id", UtilsObjectId)>>))
SchemaNested ==
  TObject(<<Prop("a", TObject(<<Prop("b", UtilsObjectId)>>)), Prop("id", UtilsObjectId)>>)
SchemaDotted ==
  TObject(<<Prop("a.b", TOptional(UtilsObjectId)),
            Prop("a", TObject(<<Prop("b", UtilsObjectId)>>))>>)
SchemaIndexKeys ==
  TObject(<<Prop("id", UtilsObjectId), Prop("1", TOptional(UtilsObjectId)),
            Prop("0", UtilsObjectId)>>)
\* an object node that itself carries the identifier format
SchemaTagged ==
  TObject(<<Prop("ref", [TObject(<<Prop("id", UtilsObjectId)>>) EXCEPT !.format = "objectid"]),
            Prop("id", UtilsObjectId)>>)
SchemaStar == TObject(<<Prop("*", TOptional(UtilsObjectId)), Prop("id", UtilsObjectId)>>)

\* schemas of the earlier generation, with ObjectIdType(true)
SchemaAutoId == TObject(<<Prop("_id", ObjectIdType(TRUE))>>)
SchemaRootAuto == ObjectIdType(TRUE)
SchemaAutoItems ==
  TObject(<<Prop("items", TArray(TObject(<<Prop("id", ObjectIdType(TRUE))>>)))>>)
AutoSchemas == {SchemaAutoId, SchemaRootAuto, SchemaAutoItems}

Schemas ==
  AutoSchemas \cup
  {SchemaRootId, SchemaRootIdDefault, SchemaOptionalId, SchemaEmail, SchemaContacts,
   SchemaItems, SchemaRootArray, SchemaRootArrayOfObjects, SchemaNested, SchemaDotted,
   SchemaIndexKeys, SchemaStar, SchemaTagged}

\* values tried at a position the schema types as an identifier
IdAtoms ==
  {Undef, Null, Str("h1"), Str("H1"), Str("h6"), Str("bad"), Str(""), Oid("h1"), Oid("h2")}
\* the smaller choice used below an array or beside other properties
FewIdAtoms == {Null, Str("H1"), Str("bad"), Oid("h2"), Str("h6")}
\* values of the wrong shape for an object or an array
Misfits == {Undef, Null, Str("h1"), Oid("h1")}

\* an object of the shape older drivers gave an identifier
LegacyObjectId(id) ==
  Obj([x \in {"_bsontype", "generationTime", "id"} |->
         CASE x = "_bsontype" -> Str("ObjectID")
           [] x = "generationTime" -> Num("30")
           [] OTHER -> id])
\* values tried at a position typed by the transformed union
CodecIdAtoms ==
  {Undef, Null, Str("H1"), Str("bad"), Str(""), Oid("h2"),
   LegacyObjectId(Str("h1")), LegacyObjectId(Str("bad"))}

\* the schemas handed to Encode and Decode
CodecRootId == CodecObjectId(Undef)
CodecDoc ==
  TObject(<<Prop("id", CodecObjectId(Config(Str("H1"), FALSE))),
            Prop("age", TOptional(TNumber))>>)
CodecPlain ==
  TObject(<<Prop("email", TString("email", LitDefault("a@b.c"))),
            Prop("age", TOptional(TNumber))>>)
CodecSchemas == {CodecRootId, CodecDoc, CodecPlain}

\* all sequences over S of length at most n
RECURSIVE SeqsUpTo(_, _)
SeqsUpTo(S, n) ==
  IF n = 0 THEN {<<>>}
  ELSE LET shorter == SeqsUpTo(S, n - 1)
       IN shorter \cup {Append(q, x) : q \in {r \in shorter : Len(r) = n - 1}, x \in S}

\* ValuesFor(schema, rich): the values tried against a schema; rich asks
\* for the larger choice. ObjectsOver gives each declared property no
\* value or one of its candidate values.
RECURSIVE ObjectsOver(_, _)
RECURSIVE ValuesFor(_, _)

ObjectsOver(props, rich) ==
  IF props = <<>> THEN {NoFields}
  ELSE LET p == Head(props)
           others == ObjectsOver(Tail(props), rich)
       IN others \cup
          {[x \in DOMAIN g \cup {p.key} |-> IF x = p.key THEN c ELSE g[x]] :
             g \in others, c \in ValuesFor(p.schema, rich)}

ValuesFor(schema, rich) ==
  CASE schema.format = "objectid" ->
         IF rich THEN IdAtoms ELSE FewIdAtoms
    [] schema.type = TransformKind -> CodecIdAtoms
    [] schema.type = "string" ->
         {Str("a@b.c"), Str("not-an-email"), Str(""), Num("30")}
    [] schema.type = "number" -> {Num("30"), Num("0"), Str("30"), Str("bad")}
    [] schema.type = "object" ->
         LET objs == ObjectsOver(schema.properties, rich /\ Len(schema.properties) = 1)
         IN {Obj(g) : g \in objs}
            \cup (IF rich
                    THEN {Obj([x \in DOMAIN g \cup {"extra"} |->
                                 IF x = "extra" THEN Str("x") ELSE g[x]]) : g \in objs}
                         \cup Misfits
                    ELSE {Null, Str("h1")})
    [] schema.type = "array" ->
         LET arrs == {Arr(q) : q \in SeqsUpTo(ValuesFor(schema.items[1], FALSE), MaxArrayLen)}
         IN arrs \cup {Obj("items" :> a) : a \in arrs} \cup {Undef, Null, Str("h1")}
    [] OTHER -> {Undef}

\* a value that conforms to the schema
RECURSIVE GoodValue(_)
RECURSIVE GoodFields(_)
GoodFields(props) ==
  IF props = <<>> THEN NoFields
  ELSE LET g == GoodFields(Tail(props))
       IN [x \in DOMAIN g \cup {Head(props).key} |->
             IF x = Head(props).key THEN GoodValue(Head(props).schema) ELSE g[x]]
GoodValue(s) ==
  CASE s.type = "string" /\ s.format = "objectid" -> Str("h2")
    [] s.type = "string" -> Str("a@b.c")
    [] s.type = "number" -> Num("30")
    [] s.type = "object" -> Obj(GoodFields(s.properties))
    [] s.type = "array" -> Arr(<<GoodValue(s.items[1])>>)
    [] OTHER -> Undef

\* the values that follow the caller's value in a batch
Companions(s) == {GoodValue(s), Null, Obj(NoFields)}

\* the operations lists tried with the earlier validate
OperationLists == {<<"Clone", "Clean", "Default", "Convert">>, <<"Clone", "Clean", "Convert">>}

\* the skip-lists tried
SkipLists == {{}, {"Clean"}, {"Default"}, {"Convert"}, {"Clean", "Default", "Convert"}}

(* ------------------------------------------------------------------ *)
(* createCompiledSchema: schemas as JavaScript objects with property    *)
(* descriptors and a prototype chain                                    *)
(* ------------------------------------------------------------------ *)
Descriptor(v, enumerable, writable, configurable) ==
  [value |-> v, enumerable |-> enumerable, writable |-> writable,
   configurable |-> configurable]
\* an object: its identity, its own properties and the objects of its
\* prototype chain, nearest first
JsObject(id, own, protos) == [id |-> id, own |-> own, protos |-> protos]
\* the object a Type.* call returns for a schema
SchemaObject(id, s) ==
  JsObject(id, [key \in DOMAIN s |-> Descriptor(s[key], TRUE, TRUE, TRUE)], <<>>)
\* the schema a schema object describes
SchemaOf(obj) == [key \in DOMAIN obj.own |-> obj.own[key].value]

\* TypeCompiler.Compile(schema)
Compile(obj) == [checks |-> SchemaOf(obj)]

\* the descriptor found for a key along the prototype chain, if any
RECURSIVE FindInChain(_, _)
FindInChain(protos, key) ==
  IF protos = <<>> THEN <<>>
  ELSE IF key \in DOMAIN Head(protos).own THEN <<Head(protos).own[key]>>
  ELSE FindInChain(Tail(protos), key)
FindProperty(obj, key) ==
  IF key \in DOMAIN obj.own THEN <<obj.own[key]>> ELSE FindInChain(obj.protos, key)
\* obj[key]
GetProperty(obj, key) ==
  IF FindProperty(obj, key) = <<>> THEN Undef ELSE FindProperty(obj, key)[1].value
\* the keys Object.keys / JSON.stringify / spread see
EnumerableKeys(obj) == {key \in DOMAIN obj.own : obj.own[key].enumerable}

\* mutant of createCompiledSchema: the checker is attached to the
\* argument itself as an ordinary property
createCompiledSchemaInPlace(schemaObj, nextId) ==
  LET changed ==
        JsObject(schemaObj.id,
                 [key \in DOMAIN schemaObj.own \cup {"_compiled"} |->
                    IF key = "_compiled" THEN Descriptor(Compile(schemaObj), TRUE, TRUE, TRUE)
                    ELSE schemaObj.own[key]],
                 schemaObj.protos)
  IN [ret |-> changed, arg |-> changed]

\* createCompiledSchema(schema): ret is the object returned and arg the
\* argument object as the call leaves it; nextId and nextId + 1 are the
\* identities of the two objects that Object.create allocates
createCompiledSchema(schemaObj, nextId) ==
  [ret |-> JsObject(nextId + 1, schemaObj.own,
                    <<JsObject(nextId,
                               [key \in {"_compiled"} |->
                                  Descriptor(Compile(schemaObj), FALSE, FALSE, FALSE)],
                               <<>>)>>
                    \o schemaObj.protos),
   arg |-> schemaObj]

(* ------------------------------------------------------------------ *)
(* The state machine: a caller holds a schema and a value and calls the *)
(* exported functions on them                                           *)
(* ------------------------------------------------------------------ *)
VARIABLES schema, value, pc, call, out, minted
vars == <<schema, value, pc, call, out, minted>>

NoCall == [op |-> "none"]
NoOut == [threw |-> FALSE]

Init ==
  /\ schema \in Schemas
  /\ value \in ValuesFor(schema, TRUE)
  /\ pc = "ready"
  /\ call = NoCall
  /\ out = NoOut
  /\ minted = 0

\* validate(value, schema, containsObjectId, skipOperations)
Validate ==
  /\ pc = "ready"
  /\ \E containsObjectId \in BOOLEAN, skipOperations \in SkipLists :
       /\ out' = validate(value, schema, containsObjectId, skipOperations)
       /\ call' = [op |-> "validate", containsObjectId |-> containsObjectId,
                   skipOperations |-> skipOperations, before |-> value,
                   opts |-> ParseOpts(skipOperations)]
  /\ value' = out'.caller
  /\ pc' = "done"
  /\ UNCHANGED <<schema, minted>>

\* validate(value, schema, names): the call the README documents, with a
\* list of stage names as third argument; the list binds to
\* containsObjectId and skipOperations keeps its default
ReadmeSkipLists == {<<"Clean">>, <<"ConvertOID">>}
NamesArray(names) == Arr([i \in 1..Len(names) |-> Str(names[i])])
ValidateWithList ==
  /\ pc = "ready"
  /\ \E names \in ReadmeSkipLists :
       /\ out' = validate(value, schema, Truthy(NamesArray(names)), {})
       /\ call' = [op |-> "validateWithList", third |-> names, before |-> value]
  /\ value' = out'.caller
  /\ pc' = "done"
  /\ UNCHANGED <<schema, minted>>

\* convertStringsToObjectIds(value, schema, getObjectIdPaths(schema))
ConvertStringsToObjectIds ==
  /\ pc = "ready"
  /\ out' = convertStringsToObjectIds(value, schema, getObjectIdPaths(schema))
  /\ value' = out'.obj
  /\ call' = [op |-> "convertStringsToObjectIds", before |-> value]
  /\ pc' = "done"
  /\ UNCHANGED <<schema, minted>>

\* convertObjectIdToStrings(value, schema, getObjectIdPaths(schema))
ConvertObjectIdToStrings ==
  /\ pc = "ready"
  /\ out' = convertObjectIdToStrings(value, schema, getObjectIdPaths(schema))
  /\ value' = out'.obj
  /\ call' = [op |-> "convertObjectIdToStrings", before |-> value]
  /\ pc' = "done"
  /\ UNCHANGED <<schema, minted>>

\* the value is rendered to strings and converted back
RoundTrip ==
  /\ pc = "ready"
  /\ out' = roundTrip(value, schema, getObjectIdPaths(schema))
  /\ value' = out'.obj
  /\ call' = [op |-> "roundTrip", before |-> value]
  /\ pc' = "done"
  /\ UNCHANGED <<schema, minted>>

\* convertStringsToObjectIds applied to its own result
ConvertStringsToObjectIdsTwice ==
  /\ pc = "ready"
  /\ out' = s2oTwice(value, schema, getObjectIdPaths(schema))
  /\ value' = out'.caller
  /\ call' = [op |-> "convertStringsToObjectIdsTwice", before |-> value]
  /\ pc' = "done"
  /\ UNCHANGED <<schema, minted>>

\* convertObjectIdToStrings applied to its own result
ConvertObjectIdToStringsTwice ==
  /\ pc = "ready"
  /\ out' = o2sTwice(value, schema, getObjectIdPaths(schema))
  /\ value' = out'.caller
  /\ call' = [op |-> "convertObjectIdToStringsTwice", before |-> value]
  /\ pc' = "done"
  /\ UNCHANGED <<schema, minted>>

\* convertObjectIds of the earlier generation applied to its own result
ConvertObjectIdsTwice ==
  /\ pc = "ready"
  /\ minted < MaxMinted
  /\ out' = autoTwice(value, schema, minted)
  /\ value' = out'.caller
  /\ minted' = out'.second.n
  /\ call' = [op |-> "convertObjectIdsTwice", before |-> value, minted |-> minted]
  /\ pc' = "done"
  /\ UNCHANGED schema

\* getObjectIdPaths(schema), as validate calls it
GetObjectIdPaths ==
  /\ pc = "ready"
  /\ out' = [threw |-> FALSE, paths |-> getObjectIdPaths(schema)]
  /\ call' = [op |-> "getObjectIdPaths", before |-> value]
  /\ pc' = "done"
  /\ UNCHANGED <<schema, value, minted>>

\* validateArray(values, schema), values starting with the caller's value
ValidateArray ==
  /\ pc = "ready"
  /\ \E rest \in SeqsUpTo(Companions(schema), MaxBatch - 1) :
       /\ call' = [op |-> "validateArray", values |-> <<value>> \o rest, before |-> value]
       /\ out' = validateArray(<<value>> \o rest, schema)
  /\ pc' = "done"
  /\ UNCHANGED <<schema, value, minted>>

\* validate(value, schema, operations) of the earlier generation
Validate2 ==
  /\ pc = "ready"
  /\ minted < MaxMinted
  /\ \E operations \in OperationLists :
       /\ out' = validate2(value, schema, operations, minted)
       /\ call' = [op |-> "validate2", operations |-> operations, before |-> value,
                   minted |-> minted]
  /\ value' = out'.caller
  /\ minted' = out'.n
  /\ pc' = "done"
  /\ UNCHANGED schema

\* the caller takes the result and is ready for its next call
Return ==
  /\ pc = "done"
  /\ pc' = "ready"
  /\ call' = NoCall
  /\ out' = NoOut
  /\ UNCHANGED <<schema, value, minted>>

Next ==
  \/ Validate
  \/ ValidateWithList
  \/ ConvertStringsToObjectIds
  \/ ConvertObjectIdToStrings
  \/ RoundTrip
  \/ GetObjectIdPaths
  \/ ConvertStringsToObjectIdsTwice
  \/ ConvertObjectIdToStringsTwice
  \/ ConvertObjectIdsTwice
  \/ ValidateArray
  \/ Validate2
  \/ Return

Spec == Init /\ [][Next]_vars

(* ------------------------------------------------------------------ *)
(* Schema construction: the calls a program makes to build its schemas  *)
(* ------------------------------------------------------------------ *)
InitBuild ==
  /\ schema \in Schemas
  /\ value = Undef
  /\ pc = "ready"
  /\ call = NoCall
  /\ out = NoOut
  /\ minted = 0

\* Utils.UUID(config), Utils.Email(config), Utils.Mobile(config),
\* Utils.ObjectId(config)
Construct ==
  /\ pc = "ready"
  /\ \E kind \in FactoryKinds, config \in Configs :
       /\ out' = Factory(kind, config)
       /\ call' = [op |-> "factory", kind |-> kind, config |-> config]
  /\ pc' = "done"
  /\ UNCHANGED <<schema, value, minted>>

\* the schema objects handed to createSchema: one that Type.* returned,
\* or one that was compiled before
SchemaObjects(s) == {SchemaObject(1, s), createCompiledSchema(SchemaObject(1, s), 2).ret}

\* createSchema(schema)
CreateSchema ==
  /\ pc = "ready"
  /\ \E obj \in SchemaObjects(schema) :
       /\ out' = [threw |-> FALSE, compiled |-> createCompiledSchema(obj, 4).ret,
                  input |-> createCompiledSchema(obj, 4).arg]
       /\ call' = [op |-> "createSchema", input |-> obj]
  /\ pc' = "done"
  /\ UNCHANGED <<schema, value, minted>>

NextBuild ==
  \/ Construct
  \/ CreateSchema
  \/ Return

SpecBuild == InitBuild /\ [][NextBuild]_vars

(* ------------------------------------------------------------------ *)
(* A caller of Encode and Decode                                        *)
(* ------------------------------------------------------------------ *)
InitCodec ==
  /\ schema \in CodecSchemas
  /\ value \in ValuesFor(schema, TRUE)
  /\ pc = "ready"
  /\ call = NoCall
  /\ out = NoOut
  /\ minted = 0

\* Encode(value, schema, applyDefault)
EncodeCall ==
  /\ pc = "ready"
  /\ \E applyDefault \in BOOLEAN :
       /\ out' = Encode(value, schema, applyDefault)
       /\ call' = [op |-> "Encode", applyDefault |-> applyDefault, before |-> value,
                   pipelines |-> EncodePipelines(applyDefault)]
  /\ value' = out'.caller
  /\ pc' = "done"
  /\ UNCHANGED <<schema, minted>>

\* Decode(value, schema, applyDefault)
DecodeCall ==
  /\ pc = "ready"
  /\ \E applyDefault \in BOOLEAN :
       /\ out' = Decode(value, schema, applyDefault)
       /\ call' = [op |-> "Decode", applyDefault |-> applyDefault, before |-> value,
                   pipelines |-> DecodePipelines(applyDefault)]
  /\ value' = out'.caller
  /\ pc' = "done"
  /\ UNCHANGED <<schema, minted>>

NextCodec ==
  \/ EncodeCall
  \/ DecodeCall
  \/ Return

SpecCodec == InitCodec /\ [][NextCodec]_vars

TypeOK == pc \in {"ready", "done"}

(* ------------------------------------------------------------------ *)
(* Properties                                                           *)
(* ------------------------------------------------------------------ *)

\* C1: validate never mutates its input argument: after every call of
\* validate the caller's value is deep-equal to what it was before the
\* call, whether the call succeeded, failed or raised.
C1_ValidateLeavesInputUnchanged ==
  call.op = "validate" => value = call.before

\* C2: with the located path contacts.* and a contacts array of strings,
\* convertStringsToObjectIds replaces every valid 24-hex element by its
\* identifier and leaves every malformed element a string.
AllStrings(a) == a.k = "array" /\ \A i \in 1..Len(a.e) : a.e[i].k = "string"
C2_WildcardElementsConverted ==
  (/\ call.op = "convertStringsToObjectIds"
   /\ schema = SchemaContacts
   /\ call.before.k = "object"
   /\ "contacts" \in DOMAIN call.before.f
   /\ AllStrings(call.before.f["contacts"]))
  => /\ ~out.threw
     /\ value.k = "object"
     /\ "contacts" \in DOMAIN value.f
     /\ value.f["contacts"].k = "array"
     /\ Len(value.f["contacts"].e) = Len(call.before.f["contacts"].e)
     /\ \A i \in 1..Len(call.before.f["contacts"].e) :
          value.f["contacts"].e[i] =
            IF ObjectIdIsValid(call.before.f["contacts"].e[i])
              THEN NewObjectId(call.before.f["contacts"].e[i])
              ELSE call.before.f["contacts"].e[i]

\* C3: validate and validateArray never raise: every call returns a
\* result tuple, whatever the input value and the containsObjectId flag.
C3_ValidateNeverRaises ==
  call.op \in {"validate", "validateArray"} => ~out.threw

\* C5: validateArray returns one result per input, in input order, and
\* result i is what validate gives for values[i] on its own.
C5_ValidateArrayIsElementwise ==
  call.op = "validateArray" =>
    /\ ~out.threw
    /\ Len(out.results) = Len(call.values)
    /\ \A i \in 1..Len(call.values) :
         out.results[i] = validate(call.values[i], schema, FALSE, {})

\* C5 witness: a batch whose first element fails and whose second succeeds
C5_Witness ==
  /\ call.op = "validateArray"
  /\ Len(call.values) >= 2
  /\ ~out.threw
  /\ out.results[1].err # <<>>
  /\ out.results[2].err = <<>>

\* what Value.Parse produced in the validate call just made (the located
\* identifiers of the caller's value were rendered in place before it ran)
ParsedInCall == ValueParse(ParseOpts(call.skipOperations), schema, value)

\* a checked value with every string at an identifier-typed position of
\* the schema replaced by its identifier
RECURSIVE IdentifierConverted(_, _)
IdentifierConverted(s, v) ==
  CASE s.format = "objectid" -> IF ObjectIdIsValid(v) THEN NewObjectId(v) ELSE v
    [] s.type = "object" /\ v.k = "object" ->
         Obj([x \in DOMAIN v.f |->
                IF x \in PropKeys(s.properties)
                  THEN IdentifierConverted(PropSchema(s.properties, x), v.f[x])
                  ELSE v.f[x]])
    [] s.type = "array" /\ v.k = "array" ->
         Arr([i \in 1..Len(v.e) |-> IdentifierConverted(s.items[1], v.e[i])])
    [] OTHER -> v

\* C4: every call of validate returns a tuple whose error slot is null
\* exactly when the checker accepts the parsed value; on success the
\* second slot is the fully processed value (identifier-converted when
\* containsObjectId); on failure the error is a non-empty message and the
\* second slot is the caller's value as it was passed in.
C4_ResultTuple ==
  call.op = "validate" =>
    /\ ~out.threw
    /\ (out.err = <<>>) <=> Check(schema, ParsedInCall)
    /\ out.err = <<>> =>
         out.val = IF call.containsObjectId
                     THEN IdentifierConverted(schema, ParsedInCall)
                     ELSE ParsedInCall
    /\ out.err # <<>> =>
         /\ out.err[1].message # ""
         /\ out.val = call.before

\* the literal default D of the _id property of SchemaOptionalId
DefaultD == SchemaOptionalId.properties[1].schema.default.s
C6_Case ==
  /\ call.op = "validate"
  /\ schema = SchemaOptionalId
  /\ call.before = Obj(NoFields)
  /\ "Default" \notin call.skipOperations

Available(v) == v.k \notin {"undefined", "null"}

\* C7: a failed validate reports the first violation of the checker and
\* only it: its message, then its path, then " (got <JSON of the value>)"
\* whenever the offending value is available.
C7_ErrorFromFirstViolation ==
  (call.op = "validate" /\ ~out.threw /\ out.err # <<>>) =>
    LET E == Head(Errors(schema, <<>>, ParsedInCall))
    IN out.err[1] =
         [message |-> E.message,
          at |-> E.path,
          got |-> IF Available(E.value) THEN <<JsonStringify(E.value)>> ELSE <<>>]

\* the _id the caller gave, or undefined
GivenId == IF call.before.k = "object" THEN Get(call.before, "_id") ELSE Undef
C8_FieldCase ==
  /\ call.op = "validate2"
  /\ schema = SchemaAutoId
  /\ call.before.k = "object"
C8_RootCase ==
  /\ call.op = "validate2"
  /\ schema = SchemaRootAuto
\* the identifier the next new ObjectId() of the call gives
FirstMinted == Oid(FreshHex(call.minted + 1))

\* C8: with ObjectIdType(true), a field (or root value) that is not
\* provided or is the sentinel string becomes a freshly minted identifier,
\* never the identifier of the sentinel; a valid 24-hex string other than
\* the sentinel becomes the identifier built from that string.
C8_SentinelBecomesFreshIdentifier ==
  /\ (C8_FieldCase /\ GivenId \in {Undef, Str(Sentinel)} /\ "Default" \in Range(call.operations))
       => (~out.threw /\ out.err = <<>>)
  /\ (C8_FieldCase /\ ~out.threw /\ out.err = <<>>) =>
       /\ GivenId \in {Undef, Str(Sentinel)} =>
            /\ Get(out.val, "_id") = FirstMinted
            /\ Get(out.val, "_id") # Oid(Sentinel)
            /\ minted = call.minted + 1
       /\ (ObjectIdIsValid(GivenId) /\ GivenId.s # Sentinel) =>
            /\ Get(out.val, "_id") = NewObjectId(GivenId)
            /\ minted = call.minted
  /\ (C8_RootCase /\ ~out.threw /\ out.err = <<>>) =>
       /\ call.before \in {Undef, Str(Sentinel)} =>
            (out.val = FirstMinted /\ out.val # Oid(Sentinel))
       /\ (ObjectIdIsValid(call.before) /\ call.before.s # Sentinel) =>
            out.val = NewObjectId(call.before)

\* C8 witness: a call that was given no _id has returned a minted one
C8_Witness ==
  /\ C8_FieldCase
  /\ GivenId = Undef
  /\ ~out.threw
  /\ out.err = <<>>
  /\ Get(out.val, "_id").k = "oid"
  /\ Get(out.val, "_id").s \in FreshHexes

\* every identifier field of v is an identifier or a valid identifier string
RECURSIVE IdFieldsValid(_, _)
IdFieldsValid(s, v) ==
  CASE s.format = "objectid" -> v.k = "oid" \/ ObjectIdIsValid(v)
    [] s.type = "object" ->
         /\ v.k = "object"
         /\ \A i \in 1..Len(s.properties) :
              s.properties[i].key \in DOMAIN v.f =>
                IdFieldsValid(s.properties[i].schema, v.f[s.properties[i].key])
    [] s.type = "array" ->
         /\ v.k = "array"
         /\ \A i \in 1..Len(v.e) : IdFieldsValid(s.items[1], v.e[i])
    [] OTHER -> TRUE

\* after holds, at every identifier field, the identifier of what before held
RECURSIVE IdFieldsRestored(_, _, _)
IdFieldsRestored(s, before, after) ==
  CASE s.format = "objectid" ->
         after = IF before.k = "oid" THEN before ELSE NewObjectId(before)
    [] s.type = "object" ->
         /\ after.k = "object"
         /\ \A i \in 1..Len(s.properties) :
              s.properties[i].key \in DOMAIN before.f =>
                /\ s.properties[i].key \in DOMAIN after.f
                /\ IdFieldsRestored(s.properties[i].schema, before.f[s.properties[i].key],
                                    after.f[s.properties[i].key])
    [] s.type = "array" ->
         /\ after.k = "array"
         /\ Len(after.e) = Len(before.e)
         /\ \A i \in 1..Len(before.e) : IdFieldsRestored(s.items[1], before.e[i], after.e[i])
    [] OTHER -> TRUE

\* C9: round trip. When every identifier field of V is an identifier or a
\* valid identifier string, converting V to strings and back along the
\* located paths leaves, at every identifier field, an identifier equal
\* to the original one.
C9_RoundTripRestoresIdentifiers ==
  (call.op = "roundTrip" /\ IdFieldsValid(schema, call.before)) =>
    /\ ~out.threw
    /\ IdFieldsRestored(schema, call.before, out.ret)

\* the path of a sub-schema seen from the property key above it
Prefixed(key, p) == Pieces(key) \o (IF Head(p) = "" THEN Tail(p) ELSE p)
PrefixedAll(key, ps) == [i \in 1..Len(ps) |-> Prefixed(key, ps[i])]
\* the located paths of the properties, one property after the other
RECURSIVE PathsOfEntries(_)
PathsOfEntries(entries) ==
  IF entries = <<>> THEN <<>>
  ELSE PrefixedAll(Head(entries).key, getObjectIdPaths(Head(entries).schema))
       \o PathsOfEntries(Tail(entries))

\* the schema nodes of a schema
RECURSIVE Nodes(_)
Nodes(s) ==
  {s} \cup UNION {Nodes(s.properties[i].schema) : i \in 1..Len(s.properties)}
      \cup UNION {Nodes(s.items[i]) : i \in 1..Len(s.items)}

\* what C10 says of every node but the order of the properties
C10_Shape(n, paths) ==
  /\ n.format = "objectid" => paths = <<EmptyPath>>
  /\ (n.format # "objectid" /\ n.type = "array" /\ n.items[1].format = "objectid") =>
       /\ Len(paths) = 1
       /\ paths[1][Len(paths[1])] = "*"

\* C10 as stated: the paths come in depth-first order following the
\* declaration order of the properties, nothing is located below an
\* identifier node, and an array of identifiers gives exactly one path,
\* ending in *.
C10_PathsInDeclarationOrder ==
  call.op = "getObjectIdPaths" =>
    /\ out.paths = getObjectIdPaths(schema)
    /\ \A n \in Nodes(schema) :
         /\ C10_Shape(n, getObjectIdPaths(n))
         /\ (n.format # "objectid" /\ n.type = "object") =>
              getObjectIdPaths(n) = PathsOfEntries(n.properties)

\* C10 amended: as stated, with the properties taken in the order in
\* which Object.entries enumerates them: names that are array indices
\* first, in ascending numeric order, then the other names in declaration
\* order.
C10_PathsInEntriesOrder ==
  call.op = "getObjectIdPaths" =>
    /\ C10_Shape(schema, out.paths)
    /\ (schema.format # "objectid" /\ schema.type = "object") =>
         out.paths = PathsOfEntries(ObjectEntries(schema.properties))
    /\ \A n \in Nodes(schema) :
         /\ C10_Shape(n, getObjectIdPaths(n))
         /\ (n.format # "objectid" /\ n.type = "object") =>
              getObjectIdPaths(n) = PathsOfEntries(ObjectEntries(n.properties))

\* C10 witness: the paths of a schema that declares an index-named
\* property after another property have been located
C10_Witness ==
  /\ call.op = "getObjectIdPaths"
  /\ schema = SchemaIndexKeys
  /\ out.paths = <<<<"0">>, <<"1">>, <<"id">>>>

\* whether a literal default passes the format check of the factory's type
PassesFormat(kind, x) ==
  CASE kind = "UUID" -> UuidTest(x)
    [] kind = "Email" -> EmailTest(x)
    [] kind = "Mobile" -> MobileTest(x)
    [] OTHER -> ObjectIdIsValid(Str(x))
SuppliedDefault == ConfigDefault(call.config)

\* C11: for each of the factories UUID, Email, Mobile and ObjectId, a
\* supplied literal default that fails the type's format check (the
\* empty string included) makes the call raise and return no schema; a
\* supplied default that passes is installed as the schema's default.
C11_InvalidDefaultRaises ==
  (call.op = "factory" /\ SuppliedDefault.k = "string") =>
    IF PassesFormat(call.kind, SuppliedDefault.s)
      THEN ~out.threw /\ out.schema.default = LitDefault(SuppliedDefault.s)
      ELSE out.threw

\* C15: createSchema returns a new schema object, distinct from its
\* argument, whose enumerable properties (keys and values) are exactly
\* those of the argument, and which carries the compiled checker under
\* _compiled as a non-enumerable, non-writable attachment; the argument
\* is unchanged and gains no _compiled.
C15_CompiledSchemaKeepsProperties ==
  call.op = "createSchema" =>
    /\ out.compiled.id # call.input.id
    /\ EnumerableKeys(out.compiled) = EnumerableKeys(call.input)
    /\ \A key \in EnumerableKeys(call.input) :
         GetProperty(out.compiled, key) = GetProperty(call.input, key)
    /\ GetProperty(out.compiled, "_compiled") = Compile(call.input)
    /\ ~FindProperty(out.compiled, "_compiled")[1].enumerable
    /\ ~FindProperty(out.compiled, "_compiled")[1].writable
    /\ "_compiled" \notin EnumerableKeys(out.compiled)
    /\ out.input = call.input
    /\ GetProperty(out.input, "_compiled") = GetProperty(call.input, "_compiled")

\* C15 witness: a schema object without a checker has been compiled
C15_Witness ==
  /\ call.op = "createSchema"
  /\ GetProperty(call.input, "_compiled") = Undef
  /\ GetProperty(out.compiled, "_compiled") = Compile(call.input)
  /\ call.input.own["type"].value = "object"

\* a sequence in which nothing occurs twice
NoDuplicates(q) == \A i, j \in 1..Len(q) : q[i] = q[j] => i = j

\* C12: the stage sequence validate hands to the parse pipeline is Clone
\* followed by those of Clean, Default, Convert that are not in the
\* skip-list, in that order, with no stage appearing more than once, and
\* no stage of the skip-list in it.
C12_StagesOrderedAndDeduplicated ==
  call.op = "validate" =>
    /\ call.opts = <<"Clone">> \o SelectSeq(<<"Clean", "Default", "Convert">>,
                                            LAMBDA st : st \notin call.skipOperations)
    /\ NoDuplicates(call.opts)
    /\ \A i \in 1..Len(call.opts) : call.opts[i] \notin call.skipOperations

\* the place of a stage in the order Clone, Clean, Default, Convert,
\* Assert (0 for a stage outside that order)
StageRank(st) ==
  CASE st = "Clone" -> 1 [] st = "Clean" -> 2 [] st = "Default" -> 3
    [] st = "Convert" -> 4 [] st = "Assert" -> 5 [] OTHER -> 0
InFixedOrder(q) ==
  \A i, j \in 1..Len(q) :
    (i < j /\ StageRank(q[i]) > 0 /\ StageRank(q[j]) > 0) => StageRank(q[i]) <= StageRank(q[j])

\* C13: in Encode and Decode, with applyDefault true or false, the
\* stages that run appear in the relative order Clone, Clean, Default,
\* Convert, Assert, and Clone is the first stage, so that no later stage
\* works on the caller's own value tree.
C13_CloneFirstFixedOrder ==
  call.op \in {"Encode", "Decode"} =>
    /\ Head(call.pipelines) = "Clone"
    /\ InFixedOrder(call.pipelines)
    /\ value = call.before

\* the parse of the Encode or Decode call just made
ParseInCall ==
  CodecParse(call.pipelines, schema, Parsing(TRUE, call.before, TRUE, call.before, <<>>))
\* the parts of what was raised
RaisedMessage(error) ==
  IF "errorMessage" \in DOMAIN error THEN error.errorMessage ELSE error.message
RaisedPath(error) == IF "path" \in DOMAIN error THEN error.path ELSE <<>>
RaisedValue(error) == IF "value" \in DOMAIN error THEN error.value ELSE Undef

\* C14: Encode and Decode never raise: they return (null, result) when
\* the parse succeeds, and otherwise a tuple whose first slot is the
\* message '<message> at path "<path>" but got "<value>"' with message,
\* path and value taken from the raised violation; the Default stage is
\* part of the parse exactly when applyDefault is true.
C14_CodecReturnsTuple ==
  call.op \in {"Encode", "Decode"} =>
    /\ ~out.threw
    /\ ("Default" \in Range(call.pipelines)) <=> call.applyDefault
    /\ ParseInCall.ok => (out.err = <<>> /\ out.val = ParseInCall.cur)
    /\ ~ParseInCall.ok =>
         out.err = <<[message |-> RaisedMessage(ParseInCall.error),
                      path |-> RaisedPath(ParseInCall.error),
                      got |-> TemplateString(RaisedValue(ParseInCall.error))]>>

\* whether an identifier instance occurs in a value
RECURSIVE ContainsOid(_)
ContainsOid(v) ==
  CASE v.k = "oid" -> TRUE
    [] v.k = "object" -> \E x \in DOMAIN v.f : ContainsOid(v.f[x])
    [] v.k = "array" -> \E i \in 1..Len(v.e) : ContainsOid(v.e[i])
    [] OTHER -> FALSE

\* C16: as the README documents, validate(value, schema, skipOperations)
\* with a list of stage names as third argument skips exactly the named
\* stages: with ['Clean'] excess properties are not removed, and with
\* ['ConvertOID'] identifier strings stay strings.
C16_ThirdArgumentSkipsStages ==
  (call.op = "validateWithList" /\ ~out.threw /\ out.err = <<>>) =>
    /\ (call.third = <<"Clean">> /\ call.before.k = "object") =>
         (out.val.k = "object" /\ DOMAIN call.before.f \subseteq DOMAIN out.val.f)
    /\ call.third = <<"ConvertOID">> => ~ContainsOid(out.val)

\* C17: as the README documents, validate(value, schema) with two
\* arguments and a valid 24-hex string in an identifier field returns
\* data in which that field is an identifier instance, not a string.
C17_TwoArgumentsConvertIdentifiers ==
  (/\ call.op = "validate"
   /\ ~call.containsObjectId
   /\ call.skipOperations = {}
   /\ schema.type = "object"
   /\ call.before.k = "object"
   /\ ~out.threw
   /\ out.err = <<>>) =>
    \A i \in 1..Len(schema.properties) :
      (/\ schema.properties[i].schema.format = "objectid"
       /\ ObjectIdIsValid(Get(call.before, schema.properties[i].key))) =>
        Get(out.val, schema.properties[i].key)
          = NewObjectId(Get(call.before, schema.properties[i].key))

\* C18: with containsObjectId true, identifier instances in the input are
\* rendered to strings before the parse and the check see them, at the
\* root path too: validate(id, identifierSchema, true) and
\* validate({ _id: id }, { _id: identifier }, true) both succeed and
\* return an identifier equal to id at that position.
C18_InstancesAcceptedWhenFlagged ==
  (call.op = "validate" /\ call.containsObjectId /\ call.skipOperations = {}) =>
    /\ (schema = SchemaRootId /\ call.before.k = "oid") =>
         (~out.threw /\ out.err = <<>> /\ out.val = call.before)
    /\ (schema = SchemaOptionalId /\ call.before.k = "object"
          /\ Get(call.before, "_id").k = "oid") =>
         (~out.threw /\ out.err = <<>>
            /\ Get(out.val, "_id") = Get(call.before, "_id"))

\* C19: for a schema whose root is an array the located path is * (array
\* of identifiers) or *.id (array of objects with an identifier field
\* id), without a leading dot, and the mutator applied with those paths
\* to a root-level array converts the identifier field of every element.
C19_RootArrayPaths ==
  /\ (call.op = "getObjectIdPaths" /\ schema = SchemaRootArray) =>
       out.paths = <<<<"*">>>>
  /\ (call.op = "getObjectIdPaths" /\ schema = SchemaRootArrayOfObjects) =>
       out.paths = <<<<"*", "id">>>>
  /\ (call.op = "convertStringsToObjectIds" /\ schema = SchemaRootArrayOfObjects
        /\ call.before.k = "array") =>
       /\ ~out.threw
       /\ \A i \in 1..Len(call.before.e) :
            (call.before.e[i].k = "object" /\ ObjectIdIsValid(Get(call.before.e[i], "id")))
              => Get(out.ret.e[i], "id") = NewObjectId(Get(call.before.e[i], "id"))

\* C20: in both mutators walking a path never raises and never stops
\* early: when an element under a * segment cannot be processed (it is
\* null or not an object) the remaining elements are still processed.
C20_WalkNeverRaises ==
  (/\ call.op \in {"convertStringsToObjectIds", "convertObjectIdToStrings"}
   /\ call.before.k \in {"object", "array"}) =>
    /\ ~out.threw
    /\ (schema = SchemaItems /\ call.before.k = "object"
          /\ Get(call.before, "items").k = "array") =>
         \A i \in 1..Len(Get(call.before, "items").e) :
           LET elemBefore == Get(call.before, "items").e[i]
               elemAfter == Get(value, "items").e[i]
           IN /\ (call.op = "convertStringsToObjectIds" /\ elemBefore.k = "object"
                    /\ ObjectIdIsValid(Get(elemBefore, "id"))) =>
                   Get(elemAfter, "id") = NewObjectId(Get(elemBefore, "id"))
              /\ (call.op = "convertObjectIdToStrings" /\ elemBefore.k = "object"
                    /\ Get(elemBefore, "id").k = "oid") =>
                   Get(elemAfter, "id") = OidToString(Get(elemBefore, "id"))

\* C22: for every schema the sequence returned by getObjectIdPaths holds
\* no path twice, also when property names contain a dot or are the
\* literal *, so that every returned path denotes one schema position.
C22_NoPathTwice ==
  call.op = "getObjectIdPaths" => NoDuplicates(out.paths)

\* the caller's tree differs from its state before the call only at
\* positions the remaining path segments address: a name addresses the
\* property of that name, * addresses the elements of an array and
\* nothing of any other container
RECURSIVE FrameHolds(_, _, _)
FrameHolds(paths, before, after) ==
  IF <<>> \in paths THEN TRUE
  ELSE IF paths = {} THEN after = before
  ELSE IF before.k = "object" THEN
    /\ after.k = "object"
    /\ DOMAIN after.f = DOMAIN before.f
    /\ \A x \in DOMAIN before.f :
         FrameHolds({Tail(p) : p \in {q \in paths : Head(q) = x}},
                    before.f[x], after.f[x])
  ELSE IF before.k = "array" THEN
    /\ after.k = "array"
    /\ Len(after.e) = Len(before.e)
    /\ \A i \in 1..Len(before.e) :
         FrameHolds({Tail(p) : p \in {q \in paths :
                                        Head(q) = "*" \/ KeyIndex(Head(q)) = i - 1}},
                    before.e[i], after.e[i])
  ELSE after = before

\* C21: convertStringsToObjectIds and convertObjectIdToStrings change the
\* value tree only at the positions the located paths address, where a *
\* segment matches only the elements of a true array: every other
\* position is unchanged after the call, and an object that is not an
\* array but has an items array property is not fanned out into.
C21_OnlyAddressedPositionsChange ==
  call.op \in {"convertStringsToObjectIds", "convertObjectIdToStrings"} =>
    FrameHolds(Range(getObjectIdPaths(schema)), call.before, value)

\* C23: both mutators are idempotent. When the first application
\* returns, the second application returns as well and returns the same
\* value: a value that is already an identifier is left as the same
\* identifier (also by convertObjectIds, which replaces the sentinel
\* string, and which mints nothing the second time), and a value that is
\* already a string stays that string.
C23_MutatorsIdempotent ==
  /\ (call.op = "convertStringsToObjectIdsTwice" /\ out.first.ok) =>
       (out.second.ok /\ out.second.ret = out.first.ret)
  /\ (call.op = "convertObjectIdToStringsTwice" /\ out.first.ok) =>
       (out.second.ok /\ out.second.ret = out.first.ret)
  /\ (call.op = "convertObjectIdsTwice" /\ out.first.ok) =>
       (out.second.ok /\ out.second.v = out.first.v /\ out.second.n = out.first.n)

\* the first application replaced a sentinel string by a minted
\* identifier and the second application returned
C23_Witness ==
  /\ call.op = "convertObjectIdsTwice"
  /\ out.first.ok
  /\ out.first.n > call.minted
  /\ out.first.v # call.before
  /\ out.second.ok

====
